---- MODULE Spec2Model ----
(***************************************************************************)
(* Job Lifecycle & Ledger Core of the service-center backend.              *)
(*                                                                         *)
(* The data store is modelled by the db_* variables (committed rows).      *)
(* Every HTTP request is a short unit of work done by a request process:   *)
(* a Begin* step is the view's get_object() (it loads an in-memory copy of *)
(* the row, for an invoice together with its prefetched line items), and   *)
(* a Do* step is the rest of the handler, run on that copy and committed   *)
(* (or rolled back) as one transaction.  Money is counted in paise         *)
(* (1/100 rupee), rates in 1/100 percent.                                  *)
(***************************************************************************)
EXTENDS Integers, Sequences, FiniteSets, TLC

VARIABLES
    db_job,          \* the stored JobCard row
    db_history,      \* the stored JobStatusHistory rows, oldest first
    notified,        \* calls of NotificationService.on_job_status_change
    db_item,         \* the stored InventoryItem row
    db_adjustments,  \* the stored InventoryAdjustment rows, oldest first
    db_usages,       \* the stored JobPartUsage rows, oldest first
    db_branch,       \* the stored Branch rows (organization, code, counters)
    branch_lock,     \* holder of each Branch row lock (select_for_update)
    issued,          \* numbers returned by get_next_*_number, in issue order
    db_docs,         \* the stored documents (invoices, job cards) by number
    db_invoice,      \* the stored Invoice row
    db_lines,        \* the stored InvoiceLineItem rows of the invoice
    db_payments,     \* the stored Payment rows of the invoice, oldest first
    next_line_id,    \* fresh primary keys for line items
    db_audit,        \* the stored AuditLog rows, oldest first
    db_part_request, \* the stored PartRequest row
    req              \* the request processes

vars == <<db_job, db_history, notified, db_item, db_adjustments, db_usages, db_branch,
          branch_lock, issued, db_docs, db_invoice, db_lines, db_payments,
          next_line_id, db_audit, db_part_request, req>>

jobVars == <<db_job, db_history, notified>>
itemVars == <<db_item, db_adjustments, db_usages>>
branchVars == <<db_branch, branch_lock, issued, db_docs>>
invoiceVars == <<db_invoice, db_lines, db_payments, next_line_id>>

Procs == {"r1", "r2"}

NoObj == [none |-> TRUE]

Idle(last) == [pc |-> "idle", kind |-> "none", obj |-> NoObj, args |-> NoObj,
               last |-> last]

NoResponse == [kind |-> "none", outcome |-> "none"]

Range(s) == {s[i] : i \in DOMAIN s}

RECURSIVE SumSeq(_)
SumSeq(s) == IF s = <<>> THEN 0 ELSE Head(s) + SumSeq(Tail(s))

(***************************************************************************)
(* Primary keys.  Every ledger model declares                              *)
(*   id = UUIDField(primary_key=True, default=uuid.uuid4)                  *)
(* so the constructor already fills pk before the first save().            *)
(***************************************************************************)
UUIDFieldDefault == "uuid4"

NoPk == "None"

\* Model.__init__ of a model whose pk field has a default: pk is that default
NewInstancePk == UUIDFieldDefault

\* AuditLog.save: refuses any instance whose pk is set
AuditLog_save(pk) ==
    IF pk # NoPk THEN "ValueError" ELSE "ok"

\* AuditLogService.log(user, action, ...) when the handler reaches the call:
\* construct an AuditLog, save it, and swallow whatever save raises
AuditLogService_log(action, reached) ==
    db_audit' = IF reached /\ AuditLog_save(NewInstancePk) = "ok"
                THEN Append(db_audit, [action |-> action])
                ELSE db_audit

(***************************************************************************)
(* Job state machine                                                       *)
(***************************************************************************)
JobStatus == {"RECEIVED", "DIAGNOSED", "ESTIMATE_SHARED", "APPROVED",
              "REJECTED", "IN_PROGRESS", "ON_HOLD", "READY", "DELIVERED",
              "CANCELLED"}

ALLOWED_STATUS_TRANSITIONS ==
    [s \in JobStatus |->
        CASE s = "RECEIVED"        -> <<"DIAGNOSED", "CANCELLED">>
          [] s = "DIAGNOSED"       -> <<"ESTIMATE_SHARED", "CANCELLED">>
          [] s = "ESTIMATE_SHARED" -> <<"APPROVED", "REJECTED", "CANCELLED">>
          [] s = "APPROVED"        -> <<"IN_PROGRESS", "CANCELLED">>
          [] s = "REJECTED"        -> <<>>
          [] s = "IN_PROGRESS"     -> <<"ON_HOLD", "READY", "CANCELLED">>
          [] s = "ON_HOLD"         -> <<"IN_PROGRESS", "CANCELLED">>
          [] s = "READY"           -> <<"DELIVERED", "IN_PROGRESS">>
          [] s = "DELIVERED"       -> <<>>
          [] s = "CANCELLED"       -> <<>>]

Role == {"OWNER", "MANAGER", "RECEPTIONIST", "TECHNICIAN", "ACCOUNTANT"}

is_terminal_status(status) == status \in {"DELIVERED", "CANCELLED", "REJECTED"}

can_transition_to(status, new_status) ==
    new_status \in Range(ALLOWED_STATUS_TRANSITIONS[status])

\* JobStatusHistory.save: refuses any instance whose pk is set
JobStatusHistory_save(pk) ==
    IF pk # NoPk THEN "ValueError" ELSE "ok"

\* JobStatusHistory.objects.create(...): construct, then save
JobStatusHistory_create == JobStatusHistory_save(NewInstancePk)

\* A response that carries no list of statuses
NoDetail == [none |-> TRUE]

\* The message of InvalidStatusTransition raised by transition_status:
\* "Cannot transition from {status} to {new_status}"
InvalidStatusTransition_message(status, new_status) ==
    [from |-> status, to |-> new_status]

\* The message of the ValidationError raised by validate_new_status:
\* "Cannot transition from {status} to this status. Allowed: {labels}";
\* a status stands for its label
validate_new_status_message(status) ==
    [from |-> status, allowed |-> ALLOWED_STATUS_TRANSITIONS[status]]

\* JobCard.transition_status on an in-memory job whose status is `status`.
\* Result: the exception raised (or "ok"), the status and history row the
\* transaction commits when it is "ok", and the status the in-memory object
\* is left with.
transition_status(status, new_status, is_override) ==
    IF is_terminal_status(status) /\ ~is_override
    THEN [outcome |-> "JobReadOnlyError", commit |-> FALSE,
          mem_status |-> status, detail |-> NoDetail]
    ELSE IF ~is_override /\ ~can_transition_to(status, new_status)
    THEN [outcome |-> "InvalidStatusTransition", commit |-> FALSE,
          mem_status |-> status,
          detail |-> InvalidStatusTransition_message(status, new_status)]
    ELSE [outcome |-> JobStatusHistory_create,
          commit |-> (JobStatusHistory_create = "ok"),
          mem_status |-> new_status, detail |-> NoDetail]

\* JobCard.transition_status: the call of on_job_status_change is the last
\* statement inside the atomic block, reached only when nothing before it
\* raised
notification_reached(outcome) == outcome = "ok"

\* The call NotificationService.on_job_status_change(job, old, new); it is
\* made before the atomic block is left
LifecycleEvent(old_status, new_status) ==
    [old_status |-> old_status, new_status |-> new_status,
     inside_atomic |-> TRUE]

HistoryRow(old_status, new_status, is_override) ==
    [from_status |-> old_status, to_status |-> new_status,
     is_override |-> is_override]

\* JobStatusUpdateSerializer.validate_new_status
validate_new_status(status, new_status, is_override, role) ==
    IF is_override
    THEN IF role \notin {"OWNER", "MANAGER"} THEN "ValidationError" ELSE "ok"
    ELSE IF ~can_transition_to(status, new_status) THEN "ValidationError"
         ELSE "ok"

\* A caller loads the job and is about to call job.transition_status(...)
BeginTransition(p) ==
    /\ req[p].pc = "idle"
    /\ \E t \in JobStatus, o \in BOOLEAN :
         req' = [req EXCEPT ![p] =
                   [pc |-> "loaded", kind |-> "transition",
                    obj |-> db_job,
                    args |-> [new_status |-> t, is_override |-> o],
                    last |-> NoResponse]]
    /\ UNCHANGED <<db_part_request, db_audit, jobVars, itemVars, branchVars, invoiceVars>>

\* The commit of a transition computed on copy `status`
ApplyTransition(p, r) ==
    IF r.commit
    THEN /\ db_job' = [db_job EXCEPT !.status = req[p].args.new_status]
         /\ db_history' = Append(db_history,
                HistoryRow(req[p].obj.status, req[p].args.new_status,
                           req[p].args.is_override))
    ELSE UNCHANGED <<db_job, db_history>>

\* The notification a transition computed on copy `status` sends
Notify(p, r) ==
    notified' = IF notification_reached(r.outcome)
                THEN Append(notified,
                            LifecycleEvent(req[p].obj.status,
                                           req[p].args.new_status))
                ELSE notified

DoTransition(p) ==
    /\ req[p].pc = "loaded"
    /\ req[p].kind = "transition"
    /\ LET r == transition_status(req[p].obj.status, req[p].args.new_status,
                                  req[p].args.is_override)
       IN /\ ApplyTransition(p, r)
          /\ Notify(p, r)
          /\ req' = [req EXCEPT ![p] =
                       Idle([kind |-> "transition", outcome |-> r.outcome,
                             detail |-> r.detail])]
    /\ UNCHANGED <<db_part_request, db_audit, itemVars, branchVars, invoiceVars>>

\* JobCardViewSet.update_status: get_object()
BeginUpdateStatus(p) ==
    /\ req[p].pc = "idle"
    /\ \E t \in JobStatus, o \in BOOLEAN, role \in Role :
         req' = [req EXCEPT ![p] =
                   [pc |-> "loaded", kind |-> "update_status",
                    obj |-> db_job,
                    args |-> [new_status |-> t, is_override |-> o,
                              role |-> role],
                    last |-> NoResponse]]
    /\ UNCHANGED <<db_part_request, db_audit, jobVars, itemVars, branchVars, invoiceVars>>

\* JobCardViewSet.update_status: the handler after get_object()
update_status(status, new_status, is_override, role) ==
    IF is_terminal_status(status)
    THEN [outcome |-> "400 terminal", commit |-> FALSE, mem_status |-> status,
          detail |-> NoDetail]
    ELSE IF validate_new_status(status, new_status, is_override, role) # "ok"
    THEN [outcome |-> "ValidationError", commit |-> FALSE,
          mem_status |-> status,
          detail |-> IF is_override THEN NoDetail
                     ELSE validate_new_status_message(status)]
    ELSE transition_status(status, new_status, is_override)

DoUpdateStatus(p) ==
    /\ req[p].pc = "loaded"
    /\ req[p].kind = "update_status"
    /\ LET r == update_status(req[p].obj.status, req[p].args.new_status,
                              req[p].args.is_override, req[p].args.role)
       IN /\ ApplyTransition(p, r)
          /\ Notify(p, r)
          /\ req' = [req EXCEPT ![p] =
                       Idle([kind |-> "update_status", outcome |-> r.outcome,
                             detail |-> r.detail])]
    /\ UNCHANGED <<db_part_request, db_audit, itemVars, branchVars, invoiceVars>>

(***************************************************************************)
(* Inventory ledger                                                        *)
(***************************************************************************)
MaxQty == 3          \* largest stock level explored

MaxArg == 3          \* largest quantity argument of a stock request

SellingPrices == {2500}

\* InventoryAdjustment.save: refuses any instance whose pk is set
InventoryAdjustment_save(pk) ==
    IF pk # NoPk THEN "ValueError" ELSE "ok"

\* InventoryAdjustment.objects.create(...): construct, then save
InventoryAdjustment_create == InventoryAdjustment_save(NewInstancePk)

AdjustmentRow(type, quantity, old_quantity, new_quantity) ==
    [adjustment_type |-> type, quantity |-> quantity,
     old_quantity |-> old_quantity, new_quantity |-> new_quantity]

Abs(x) == IF x < 0 THEN -x ELSE x

\* atomic_commits without the rollback: the writes made before the exception
\* stay stored
atomic_commits_no_rollback(outcome) == TRUE

\* transaction.atomic(): the block's writes are stored only if nothing raised
atomic_commits(outcome) == outcome = "ok"

\* InventoryItem.add_stock on an in-memory item holding `quantity`
add_stock(quantity, amount) ==
    IF amount <= 0
    THEN [outcome |-> "ValueError: positive", commit |-> FALSE,
          mem_quantity |-> quantity]
    ELSE [outcome |-> InventoryAdjustment_create,
          commit |-> atomic_commits(InventoryAdjustment_create),
          mem_quantity |-> quantity + amount,
          row |-> AdjustmentRow("ADD", amount, quantity, quantity + amount)]

\* deduct_stock_check without the sufficiency test
deduct_stock_check_unchecked(quantity, amount) ==
    IF amount <= 0 THEN "ValueError: positive" ELSE "ok"

\* InventoryItem.deduct_stock, the checks before the atomic block
deduct_stock_check(quantity, amount) ==
    IF amount <= 0 THEN "ValueError: positive"
    ELSE IF quantity < amount THEN "InsufficientInventory"
    ELSE "ok"

\* InventoryItem.deduct_stock, the atomic block
deduct_stock_block(quantity, amount) ==
    [outcome |-> InventoryAdjustment_create,
     commit |-> atomic_commits(InventoryAdjustment_create),
     mem_quantity |-> quantity - amount,
     row |-> AdjustmentRow("DEDUCT", amount, quantity, quantity - amount)]

\* InventoryItem.adjust_stock
adjust_stock(quantity, new_quantity) ==
    IF new_quantity < 0
    THEN [outcome |-> "ValueError: negative", commit |-> FALSE,
          mem_quantity |-> quantity]
    ELSE [outcome |-> InventoryAdjustment_create,
          commit |-> atomic_commits(InventoryAdjustment_create),
          mem_quantity |-> new_quantity,
          row |-> AdjustmentRow(
                     IF new_quantity - quantity >= 0 THEN "MANUAL"
                                                     ELSE "CORRECTION",
                     Abs(new_quantity - quantity), quantity, new_quantity)]

\* StockAddSerializer / StockDeductSerializer: quantity IntegerField(min_value=1)
validate_stock_quantity(amount) ==
    IF amount < 1 THEN "ValidationError" ELSE "ok"

\* StockAdjustSerializer: new_quantity IntegerField(min_value=0)
validate_new_quantity(new_quantity) ==
    IF new_quantity < 0 THEN "ValidationError" ELSE "ok"

\* The commit of a stock operation computed on the in-memory item
ApplyStock(r) ==
    IF r.commit
    THEN /\ db_item' = [db_item EXCEPT !.quantity = r.mem_quantity]
         /\ db_adjustments' = IF InventoryAdjustment_create = "ok"
                               THEN Append(db_adjustments, r.row)
                               ELSE db_adjustments
    ELSE UNCHANGED <<db_item, db_adjustments>>

\* InventoryItemViewSet.add_stock / deduct_stock / adjust_stock: get_object()
BeginStock(p) ==
    /\ req[p].pc = "idle"
    /\ \E k \in {"add_stock", "deduct_stock", "adjust_stock"},
          a \in 0..MaxArg, j \in BOOLEAN :
         /\ (k # "deduct_stock") => ~j
         /\ (k = "add_stock") => db_item.quantity + a <= MaxQty
         /\ req' = [req EXCEPT ![p] =
                      [pc |-> "loaded", kind |-> k, obj |-> db_item,
                       args |-> [amount |-> a, job |-> j],
                       last |-> NoResponse]]
    /\ UNCHANGED <<db_part_request, db_audit, jobVars, itemVars, branchVars, invoiceVars>>

\* InventoryItemViewSet.add_stock after get_object()
DoAddStock(p) ==
    /\ req[p].pc = "loaded"
    /\ req[p].kind = "add_stock"
    /\ LET r == IF validate_stock_quantity(req[p].args.amount) # "ok"
                THEN [outcome |-> "ValidationError", commit |-> FALSE,
                      mem_quantity |-> req[p].obj.quantity]
                ELSE add_stock(req[p].obj.quantity, req[p].args.amount)
       IN /\ ApplyStock(r)
          /\ req' = [req EXCEPT ![p] =
                       Idle([kind |-> "add_stock", outcome |-> r.outcome])]
    /\ UNCHANGED <<db_part_request, db_audit, jobVars, db_usages, branchVars, invoiceVars>>

\* InventoryItemViewSet.deduct_stock after get_object(), up to and including
\* the checks of InventoryItem.deduct_stock
CheckDeductStock(p) ==
    /\ req[p].pc = "loaded"
    /\ req[p].kind = "deduct_stock"
    /\ LET v == validate_stock_quantity(req[p].args.amount)
           c == IF v # "ok" THEN v
                ELSE deduct_stock_check(req[p].obj.quantity,
                                        req[p].args.amount)
       IN req' = [req EXCEPT ![p] =
                    IF c = "ok" THEN [req[p] EXCEPT !.pc = "checked"]
                    ELSE Idle([kind |-> "deduct_stock", outcome |-> c])]
    /\ UNCHANGED <<db_part_request, db_audit, jobVars, itemVars, branchVars, invoiceVars>>

UsageRow(amount, unit_price) ==
    [quantity |-> amount, unit_price |-> unit_price,
     total_price |-> unit_price * amount]

\* InventoryItem.deduct_stock, the atomic block
DoDeductStock(p) ==
    /\ req[p].pc = "checked"
    /\ req[p].kind = "deduct_stock"
    /\ LET r == deduct_stock_block(req[p].obj.quantity, req[p].args.amount)
       IN /\ ApplyStock(r)
          /\ db_usages' =
               IF r.commit /\ req[p].args.job
               THEN Append(db_usages,
                           UsageRow(req[p].args.amount,
                                    req[p].obj.selling_price))
               ELSE db_usages
          /\ req' = [req EXCEPT ![p] =
                       Idle([kind |-> "deduct_stock", outcome |-> r.outcome])]
    /\ UNCHANGED <<db_part_request, db_audit, jobVars, branchVars, invoiceVars>>

\* InventoryItemViewSet.adjust_stock after get_object()
DoAdjustStock(p) ==
    /\ req[p].pc = "loaded"
    /\ req[p].kind = "adjust_stock"
    /\ LET r == IF validate_new_quantity(req[p].args.amount) # "ok"
                THEN [outcome |-> "ValidationError", commit |-> FALSE,
                      mem_quantity |-> req[p].obj.quantity]
                ELSE adjust_stock(req[p].obj.quantity, req[p].args.amount)
       IN /\ ApplyStock(r)
          /\ AuditLogService_log("MANUAL_STOCK_ADJUSTMENT", r.outcome = "ok")
          /\ req' = [req EXCEPT ![p] =
                       Idle([kind |-> "adjust_stock", outcome |-> r.outcome])]
    /\ UNCHANGED <<db_part_request, jobVars, db_usages, branchVars, invoiceVars>>

(***************************************************************************)
(* Part requests: PartRequest.approve and PartRequestViewSet               *)
(***************************************************************************)
MaxRequested == 2    \* largest quantity of a part request

NewPartRequest(quantity, linked) ==
    [status |-> "PENDING", quantity |-> quantity, linked |-> linked]

\* PartRequest.approve on the request and the inventory item that
\* get_object() loaded with select_related: the atomic block either commits
\* the deduction and the status, or nothing
PartRequest_approve(request, quantity) ==
    IF ~request.linked
    THEN [outcome |-> "ok", commit |-> TRUE, deducted |-> FALSE]
    ELSE IF quantity < request.quantity
    THEN [outcome |-> "InsufficientInventory", commit |-> FALSE,
          deducted |-> FALSE]
    ELSE IF deduct_stock_check(quantity, request.quantity) # "ok"
    THEN [outcome |-> deduct_stock_check(quantity, request.quantity),
          commit |-> FALSE, deducted |-> FALSE]
    ELSE LET r == deduct_stock_block(quantity, request.quantity)
         IN [outcome |-> r.outcome, commit |-> r.commit,
             deducted |-> r.commit, mem_quantity |-> r.mem_quantity,
             row |-> r.row]

\* PartRequestViewSet.approve / reject: "role not in [OWNER, MANAGER]"
approval_forbidden(role) == role \notin {"OWNER", "MANAGER"}

\* PartRequestViewSet.approve / reject / partial_update: get_object()
BeginPartRequest(p) ==
    /\ req[p].pc = "idle"
    /\ \E k \in {"approve", "reject", "partial_update"},
          role \in {"MANAGER", "TECHNICIAN"}, a \in BOOLEAN :
         req' = [req EXCEPT ![p] =
                   [pc |-> "loaded", kind |-> k,
                    obj |-> [request |-> db_part_request, item |-> db_item],
                    args |-> [role |-> role, a |-> a],
                    last |-> NoResponse]]
    /\ UNCHANGED <<db_part_request, db_audit, jobVars, itemVars, branchVars,
                   invoiceVars>>

\* PartRequestViewSet.approve after get_object()
DoApprove(p) ==
    /\ req[p].pc = "loaded"
    /\ req[p].kind = "approve"
    /\ LET r == IF approval_forbidden(req[p].args.role)
                THEN [outcome |-> "403", commit |-> FALSE, deducted |-> FALSE]
                ELSE PartRequest_approve(req[p].obj.request,
                                         req[p].obj.item.quantity)
       IN /\ IF r.deducted
             THEN /\ db_item' = [db_item EXCEPT !.quantity = r.mem_quantity]
                  /\ db_adjustments' = Append(db_adjustments, r.row)
             ELSE UNCHANGED <<db_item, db_adjustments>>
          /\ db_part_request' =
               IF r.commit
               THEN [req[p].obj.request EXCEPT !.status = "APPROVED"]
               ELSE db_part_request
          /\ req' = [req EXCEPT ![p] =
                       Idle([kind |-> "approve", outcome |-> r.outcome])]
    /\ UNCHANGED <<db_audit, jobVars, db_usages, branchVars, invoiceVars>>

\* PartRequestViewSet.reject after get_object(); args.a: a reason was given
DoReject(p) ==
    /\ req[p].pc = "loaded"
    /\ req[p].kind = "reject"
    /\ LET outcome == IF approval_forbidden(req[p].args.role) THEN "403"
                      ELSE IF ~req[p].args.a THEN "400 reason required"
                      ELSE "ok"
       IN /\ db_part_request' =
               IF outcome = "ok"
               THEN [req[p].obj.request EXCEPT !.status = "REJECTED"]
               ELSE db_part_request
          /\ req' = [req EXCEPT ![p] =
                       Idle([kind |-> "reject", outcome |-> outcome])]
    /\ UNCHANGED <<db_audit, jobVars, itemVars, branchVars, invoiceVars>>

\* PartRequestViewSet.partial_update after get_object(): inventory_item is
\* writable, status is read-only; args.a: the request is linked to the item
DoPartialUpdate(p) ==
    /\ req[p].pc = "loaded"
    /\ req[p].kind = "partial_update"
    /\ db_part_request' = [req[p].obj.request EXCEPT !.linked = req[p].args.a]
    /\ req' = [req EXCEPT ![p] =
                 Idle([kind |-> "partial_update", outcome |-> "ok"])]
    /\ UNCHANGED <<db_audit, jobVars, itemVars, branchVars, invoiceVars>>

(***************************************************************************)
(* Sequence generator: Branch.get_next_invoice_number /                    *)
(* get_next_jobcard_number, and the document creations that call them      *)
(* from Invoice.save / JobCard.save.                                       *)
(***************************************************************************)
MaxCounter == 3      \* largest counter value explored

MaxIssued == 4       \* at most this many numbers are ever handed out

DocKinds == {"invoice", "jobcard"}

Branches == {"b1", "b2"}

Organizations == {"o1", "o2"}

BranchCodes == {"MUM", "PUN"}

\* Branch.Meta: unique_together = ['organization', 'code']
BranchRowsUnique(rows) ==
    \A b, c \in DOMAIN rows :
        (b # c /\ rows[b].organization = rows[c].organization)
        => rows[b].code # rows[c].code

NewBranch(organization, code) ==
    [organization |-> organization, code |-> code,
     invoice_current_number |-> 0, jobcard_current_number |-> 0]

\* "serializer": InvoiceCreateSerializer.create / JobCardCreateSerializer.create
\*               (decorated with transaction.atomic);
\* "direct":     InvoiceService.create_invoice_from_job / a plain
\*               objects.create, where get_next_* is the outermost atomic block
CreatePaths == {"serializer", "direct"}

NoLock == "none"

CounterField(doc) == IF doc = "invoice" THEN "invoice_current_number"
                     ELSE "jobcard_current_number"

Prefix(doc) == IF doc = "invoice" THEN "INV" ELSE "JC"

\* f"{prefix}/{fy}/{code}/{sequence}" within one financial year
FormatNumber(doc, code, n) == [prefix |-> Prefix(doc), code |-> code, seq |-> n]

\* job_number / invoice_number: unique=True over all rows of the table
number_taken(docs, kind, number) ==
    \E d \in docs : d.kind = kind /\ d.number = number

\* Branch.objects.select_for_update().get(pk=...) waits while another
\* transaction holds the row lock
select_for_update_blocks(lock, p) == lock # NoLock /\ lock # p

\* The rest of the create() body after the numbered row was inserted
create_body(doc, bad_input) ==
    IF doc = "jobcard" THEN JobStatusHistory_create
    ELSE IF bad_input THEN "InvalidOperation"
    ELSE "ok"

\* get_next_*_number: take the row lock and read the counter
LockBranch(p, branches) ==
    /\ req[p].pc = "idle"
    /\ \E b \in branches, doc \in DocKinds, path \in CreatePaths,
          bad \in BOOLEAN :
         /\ ~select_for_update_blocks(branch_lock[b], p)
         /\ db_branch[b][CounterField(doc)] < MaxCounter
         /\ Len(issued) + Cardinality({q \in Procs : req[q].pc = "locked"})
              < MaxIssued
         /\ (bad => doc = "invoice" /\ path = "serializer")
         /\ req' = [req EXCEPT ![p] =
                      [pc |-> "locked", kind |-> "create",
                       obj |-> [counter |-> db_branch[b][CounterField(doc)]],
                       args |-> [doc |-> doc, path |-> path,
                                 bad_input |-> bad, branch |-> b],
                       last |-> NoResponse]]
         /\ branch_lock' = [branch_lock EXCEPT ![b] = p]
    /\ UNCHANGED <<db_part_request, db_audit, jobVars, itemVars, db_branch, issued, db_docs, invoiceVars>>

\* get_next_*_number: increment, save, format and return; on the direct path
\* the atomic block is outermost, so it commits here and the row is inserted
IssueNumber(p) ==
    /\ req[p].pc = "locked"
    /\ req[p].kind = "create"
    /\ LET b == req[p].args.branch
           n == req[p].obj.counter + 1
           number == FormatNumber(req[p].args.doc, db_branch[b].code, n)
           doc == [kind |-> req[p].args.doc, number |-> number, branch |-> b]
           taken == number_taken(db_docs, doc.kind, number)
       IN /\ issued' = Append(issued, doc)
          /\ IF req[p].args.path = "direct"
             THEN /\ db_branch' =
                       [db_branch EXCEPT
                          ![b][CounterField(req[p].args.doc)] = n]
                  /\ branch_lock' = [branch_lock EXCEPT ![b] = NoLock]
                  /\ db_docs' = IF taken THEN db_docs
                                ELSE db_docs \cup {doc}
                  /\ req' = [req EXCEPT ![p] =
                               Idle([kind |-> "create",
                                     outcome |-> IF taken
                                                 THEN "IntegrityError"
                                                 ELSE "ok"])]
             ELSE /\ req' = [req EXCEPT ![p] =
                               [req[p] EXCEPT !.pc = "numbered",
                                              !.obj = [counter |-> n]]]
                  /\ UNCHANGED <<db_branch, branch_lock, db_docs>>
    /\ UNCHANGED <<db_part_request, db_audit, jobVars, itemVars, invoiceVars>>

\* The end of a create() decorated with transaction.atomic: commit when the
\* body raised nothing, roll back (counter included) when it raised
FinishCreate(p) ==
    /\ req[p].pc = "numbered"
    /\ req[p].kind = "create"
    /\ LET b == req[p].args.branch
           n == req[p].obj.counter
           doc == [kind |-> req[p].args.doc,
                   number |-> FormatNumber(req[p].args.doc,
                                           db_branch[b].code, n),
                   branch |-> b]
           body == IF number_taken(db_docs, doc.kind, doc.number)
                   THEN "IntegrityError"
                   ELSE create_body(req[p].args.doc, req[p].args.bad_input)
       IN /\ IF atomic_commits(body)
             THEN /\ db_branch' =
                       [db_branch EXCEPT
                          ![b][CounterField(req[p].args.doc)] = n]
                  /\ db_docs' = db_docs \cup {doc}
             ELSE UNCHANGED <<db_branch, db_docs>>
          /\ branch_lock' = [branch_lock EXCEPT ![b] = NoLock]
          /\ req' = [req EXCEPT ![p] =
                       Idle([kind |-> "create", outcome |-> body])]
    /\ UNCHANGED <<db_part_request, db_audit, jobVars, itemVars, issued, invoiceVars>>

(***************************************************************************)
(* Tax engine and invoice ledger                                           *)
(***************************************************************************)
MaxLines == 2        \* at most this many line items are ever created

MaxPayments == 2     \* at most this many Payment rows are ever created

MaxNotes == 1        \* at most this many cancellation notes are appended

MaxGstBase == 10     \* base amounts 0..MaxGstBase paise are all explored

\* Base amounts (paise) handed to calculate_gst: every small amount, an
\* amount whose half tax is an exact half paisa, and 1000.00
GstBases == 0..MaxGstBase \cup {50, 100000}

\* GST rates (1/100 percent) handed to calculate_gst
GstRates == {25, 500, 1200, 1800, 2800}

\* The line items a request may add: quantity, unit price (paise), GST rate
\* and discount (1/100 percent)
LineInputs ==
    { [quantity |-> 1, unit_price |-> 1000, gst_rate |-> 1800,
       discount_percent |-> 0],
      [quantity |-> 1, unit_price |-> 1050, gst_rate |-> 1800,
       discount_percent |-> 500] }

\* Invoice-level discounts (paise) a create request may carry
DiscountAmounts == {0, 100}

\* Amounts (paise) a payment request may carry
PaymentAmounts == {0, 600, 1180}

\* Decimal.quantize(two_places, ROUND_HALF_UP) of n/d, for d > 0
RoundHalfUp(n, d) ==
    IF n >= 0 THEN (2 * n + d) \div (2 * d)
    ELSE -((2 * (-n) + d) \div (2 * d))

\* Decimal.quantize(two_places) under the default context (ROUND_HALF_EVEN)
RoundHalfEven(n, d) ==
    LET a == Abs(n)
        q == a \div d
        r == a % d
        m == IF 2 * r > d THEN q + 1
             ELSE IF 2 * r < d THEN q
             ELSE IF q % 2 = 0 THEN q ELSE q + 1
    IN IF n >= 0 THEN m ELSE -m

\* calculate_gst with the interstate branch taken for every supply
calculate_gst_unsplit(base, rate, is_interstate) ==
    LET igst == RoundHalfUp(base * rate, 10000)
    IN [cgst_rate |-> 0, cgst_amount |-> 0,
        sgst_rate |-> 0, sgst_amount |-> 0,
        igst_rate |-> 2 * rate, igst_amount |-> igst,
        total_tax |-> igst, total_amount |-> base + igst]

\* core.utils.calculate_gst: base in paise, rate in 1/100 percent; the
\* component rates it returns are counted in 1/200 percent, so that half a
\* rate is a whole number
calculate_gst(base, rate, is_interstate) ==
    IF is_interstate
    THEN LET igst == RoundHalfUp(base * rate, 10000)
         IN [cgst_rate |-> 0, cgst_amount |-> 0,
             sgst_rate |-> 0, sgst_amount |-> 0,
             igst_rate |-> 2 * rate, igst_amount |-> igst,
             total_tax |-> igst, total_amount |-> base + igst]
    ELSE LET cgst == RoundHalfUp(base * rate, 20000)
             sgst == RoundHalfUp(base * rate, 20000)
         IN [cgst_rate |-> rate, cgst_amount |-> cgst,
             sgst_rate |-> rate, sgst_amount |-> sgst,
             igst_rate |-> 0, igst_amount |-> 0,
             total_tax |-> cgst + sgst,
             total_amount |-> base + cgst + sgst]

\* InvoiceLineItem.save, the computed columns of the row it inserts
LineItem(id, in, is_interstate) ==
    LET gross == in.quantity * in.unit_price
        discount == IF in.discount_percent > 0
                    THEN RoundHalfEven(gross * in.discount_percent, 10000)
                    ELSE 0
        amount == gross - discount
        gst == calculate_gst(amount, in.gst_rate, is_interstate)
    IN [id |-> id, amount |-> amount,
        cgst_amount |-> gst.cgst_amount, sgst_amount |-> gst.sgst_amount,
        igst_amount |-> gst.igst_amount]

RECURSIVE SumField(_, _)
SumField(lines, f) ==
    IF lines = {} THEN 0
    ELSE LET l == CHOOSE x \in lines : TRUE
         IN l[f] + SumField(lines \ {l}, f)

\* Invoice.balance_due
balance_due(inv) == inv.total_amount - inv.paid_amount

\* Invoice._update_payment_status
update_payment_status(inv) ==
    IF inv.status = "CANCELLED" THEN inv
    ELSE IF balance_due(inv) <= 0 THEN [inv EXCEPT !.status = "PAID"]
    ELSE IF inv.paid_amount > 0 THEN [inv EXCEPT !.status = "PARTIAL"]
    ELSE IF inv.is_finalized THEN [inv EXCEPT !.status = "PENDING"]
    ELSE [inv EXCEPT !.status = "DRAFT"]

\* Invoice.calculate_totals over the line items self.line_items.all() yields
calculate_totals(inv, lines) ==
    IF inv.is_finalized THEN inv
    ELSE LET subtotal == SumField(lines, "amount")
             cgst == SumField(lines, "cgst_amount")
             sgst == SumField(lines, "sgst_amount")
             igst == SumField(lines, "igst_amount")
         IN update_payment_status(
              [inv EXCEPT !.subtotal = subtotal,
                          !.cgst_total = cgst,
                          !.sgst_total = sgst,
                          !.igst_total = igst,
                          !.total_tax = cgst + sgst + igst,
                          !.total_amount =
                              subtotal + cgst + sgst + igst
                              - inv.discount_amount])

\* The Invoice row InvoiceCreateSerializer.create stores for a job without
\* used parts and a request without line items
NewInvoice(discount, is_interstate) ==
    calculate_totals(
        [is_finalized |-> FALSE, status |-> "DRAFT", paid_amount |-> 0,
         subtotal |-> 0, cgst_total |-> 0, sgst_total |-> 0,
         igst_total |-> 0, total_tax |-> 0, total_amount |-> 0,
         discount_amount |-> discount, is_interstate |-> is_interstate,
         notes |-> <<>>],
        {})

\* Invoice.save: allowed_fields
allowed_fields == {"paid_amount", "status", "updated_at"}

\* Invoice.save: hasattr(self, '_dirty_fields'); nothing in the code base
\* ever sets that attribute
has_dirty_fields == FALSE

\* Invoice.save on an in-memory invoice `inv` (pk set) whose changed fields
\* are `dirty`: the exception raised, or "ok" when the row is written
Invoice_save(inv, dirty) ==
    IF inv.is_finalized /\ has_dirty_fields /\ ~(dirty \subseteq allowed_fields)
    THEN "BusinessRuleViolation"
    ELSE "ok"

\* finalize without the test for line items
finalize_unchecked(inv, lines) ==
    IF inv.is_finalized
    THEN [outcome |-> "ok", save |-> FALSE, inv |-> inv]
    ELSE [outcome |-> "ok", save |-> TRUE,
          inv |-> [calculate_totals(inv, lines) EXCEPT
                      !.is_finalized = TRUE, !.status = "PENDING"]]

\* Invoice.finalize on an in-memory invoice whose line_items manager yields
\* `lines`
finalize(inv, lines) ==
    IF inv.is_finalized
    THEN [outcome |-> "ok", save |-> FALSE, inv |-> inv]
    ELSE IF lines = {}
    THEN [outcome |-> "BusinessRuleViolation", save |-> FALSE, inv |-> inv]
    ELSE [outcome |-> "ok", save |-> TRUE,
          inv |-> [calculate_totals(inv, lines) EXCEPT
                      !.is_finalized = TRUE, !.status = "PENDING"]]

\* record_payment without the test for a cancelled invoice
record_payment_any_status(inv, amount) ==
    IF amount <= 0
    THEN [outcome |-> "BusinessRuleViolation", save |-> FALSE, inv |-> inv]
    ELSE [outcome |-> "ok", save |-> TRUE,
          inv |-> update_payment_status(
                     [inv EXCEPT !.paid_amount = inv.paid_amount + amount])]

\* Invoice.record_payment on an in-memory invoice
record_payment(inv, amount) ==
    IF amount <= 0
    THEN [outcome |-> "BusinessRuleViolation", save |-> FALSE, inv |-> inv]
    ELSE IF inv.status = "CANCELLED"
    THEN [outcome |-> "BusinessRuleViolation", save |-> FALSE, inv |-> inv]
    ELSE [outcome |-> "ok", save |-> TRUE,
          inv |-> update_payment_status(
                     [inv EXCEPT !.paid_amount = inv.paid_amount + amount])]

\* modification_blocked without the test: line items of a finalized invoice
\* reach InvoiceLineItem.save / delete
modification_blocked_never(inv) == FALSE

\* InvoiceViewSet.add_line_item / remove_line_item: "if invoice.is_finalized"
modification_blocked(inv) == inv.is_finalized

\* payment_blocked without the test: payments reach a draft invoice
payment_blocked_never(inv) == FALSE

\* InvoiceViewSet.record_payment: "if not invoice.is_finalized"
payment_blocked(inv) == ~inv.is_finalized

\* validate_amount without the balance test
validate_amount_unbounded(inv, amount) ==
    IF amount < 1 THEN "ValidationError" ELSE "ok"

\* RecordPaymentSerializer: amount min_value 0.01 and validate_amount
validate_amount(inv, amount) ==
    IF amount < 1 THEN "ValidationError"
    ELSE IF amount > balance_due(inv) THEN "ValidationError"
    ELSE "ok"

\* InvoiceViewSet.*: get_object(), which also prefetches the line items
InvoiceActions == {"finalize", "add_line_item", "remove_line_item",
                   "record_payment", "cancel"}

BeginInvoice(p, actions) ==
    /\ req[p].pc = "idle"
    /\ \E k \in actions :
         \E a \in (CASE k = "add_line_item" -> LineInputs
                     [] k = "remove_line_item" -> 1..MaxLines
                     [] k = "record_payment" -> PaymentAmounts
                     [] k = "cancel" -> BOOLEAN
                     [] OTHER -> {0}) :
           /\ (k = "cancel") => Len(db_invoice.notes) < MaxNotes
           /\ req' = [req EXCEPT ![p] =
                     [pc |-> "loaded", kind |-> k,
                      obj |-> [inv |-> db_invoice, lines |-> db_lines],
                      args |-> [a |-> a],
                      last |-> NoResponse]]
    /\ UNCHANGED <<db_part_request, db_audit, jobVars, itemVars, branchVars, invoiceVars>>

\* InvoiceViewSet.finalize after get_object()
DoFinalize(p) ==
    /\ req[p].pc = "loaded"
    /\ req[p].kind = "finalize"
    /\ LET r == IF req[p].obj.inv.is_finalized
                THEN [outcome |-> "400 finalized", save |-> FALSE]
                ELSE finalize(req[p].obj.inv, req[p].obj.lines)
       IN /\ db_invoice' = IF r.save THEN r.inv ELSE db_invoice
          /\ AuditLogService_log("INVOICE_FINALIZED", r.save)
          /\ req' = [req EXCEPT ![p] =
                       Idle([kind |-> "finalize", outcome |-> r.outcome])]
    /\ UNCHANGED <<db_part_request, jobVars, itemVars, branchVars, db_lines, db_payments,
                   next_line_id>>

\* InvoiceViewSet.add_line_item after get_object(): the view's guard, then
\* InvoiceLineItem.objects.create, whose save() recalculates and saves the
\* in-memory invoice it was given
DoAddLineItem(p) ==
    /\ req[p].pc = "loaded"
    /\ req[p].kind = "add_line_item"
    /\ IF modification_blocked(req[p].obj.inv)
       THEN /\ req' = [req EXCEPT ![p] =
                         Idle([kind |-> "add_line_item",
                               outcome |-> "400 finalized"])]
            /\ UNCHANGED <<db_invoice, db_lines, next_line_id>>
       ELSE /\ next_line_id <= MaxLines
            /\ db_lines' = db_lines \cup
                 {LineItem(next_line_id, req[p].args.a,
                           req[p].obj.inv.is_interstate)}
            /\ next_line_id' = next_line_id + 1
            /\ db_invoice' = calculate_totals(req[p].obj.inv,
                                              req[p].obj.lines)
            /\ req' = [req EXCEPT ![p] =
                         Idle([kind |-> "add_line_item", outcome |-> "ok"])]
    /\ UNCHANGED <<db_part_request, db_audit, jobVars, itemVars, branchVars, db_payments>>

\* InvoiceViewSet.remove_line_item after get_object()
DoRemoveLineItem(p) ==
    /\ req[p].pc = "loaded"
    /\ req[p].kind = "remove_line_item"
    /\ IF modification_blocked(req[p].obj.inv)
       THEN /\ req' = [req EXCEPT ![p] =
                         Idle([kind |-> "remove_line_item",
                               outcome |-> "400 finalized"])]
            /\ UNCHANGED <<db_invoice, db_lines>>
       ELSE IF \E l \in db_lines : l.id = req[p].args.a
       THEN /\ db_lines' = {l \in db_lines : l.id # req[p].args.a}
            /\ db_invoice' = calculate_totals(req[p].obj.inv,
                                              req[p].obj.lines)
            /\ req' = [req EXCEPT ![p] =
                         Idle([kind |-> "remove_line_item",
                               outcome |-> "ok"])]
       ELSE /\ req' = [req EXCEPT ![p] =
                         Idle([kind |-> "remove_line_item",
                               outcome |-> "404"])]
            /\ UNCHANGED <<db_invoice, db_lines>>
    /\ UNCHANGED <<db_part_request, db_audit, jobVars, itemVars, branchVars, db_payments, next_line_id>>

\* InvoiceViewSet.record_payment after get_object()
DoRecordPayment(p) ==
    /\ req[p].pc = "loaded"
    /\ req[p].kind = "record_payment"
    /\ LET inv == req[p].obj.inv
           amount == req[p].args.a
           r == IF payment_blocked(inv)
                THEN [outcome |-> "400 not finalized", save |-> FALSE]
                ELSE IF validate_amount(inv, amount) # "ok"
                THEN [outcome |-> "ValidationError", save |-> FALSE]
                ELSE record_payment(inv, amount)
       IN /\ r.save => Len(db_payments) < MaxPayments
          /\ IF r.save
             THEN /\ db_payments' = Append(db_payments, amount)
                  /\ db_invoice' =
                       [db_invoice EXCEPT !.paid_amount = r.inv.paid_amount,
                                          !.status = r.inv.status]
             ELSE UNCHANGED <<db_invoice, db_payments>>
          /\ AuditLogService_log("PAYMENT_RECEIVED", r.save)
          /\ req' = [req EXCEPT ![p] =
                       Idle([kind |-> "record_payment",
                             outcome |-> r.outcome])]
    /\ UNCHANGED <<db_part_request, jobVars, itemVars, branchVars, db_lines, next_line_id>>

\* InvoiceViewSet.cancel after get_object(); args.a: a reason was given
DoCancel(p) ==
    /\ req[p].pc = "loaded"
    /\ req[p].kind = "cancel"
    /\ LET inv == req[p].obj.inv
       IN IF inv.paid_amount > 0
          THEN /\ req' = [req EXCEPT ![p] =
                            Idle([kind |-> "cancel",
                                  outcome |-> "400 has payments"])]
               /\ UNCHANGED <<db_invoice, db_audit>>
          ELSE IF ~req[p].args.a
          THEN /\ req' = [req EXCEPT ![p] =
                            Idle([kind |-> "cancel",
                                  outcome |-> "400 reason required"])]
               /\ UNCHANGED <<db_invoice, db_audit>>
          ELSE LET cancelled == [inv EXCEPT
                                   !.status = "CANCELLED",
                                   !.notes = Append(inv.notes, "CANCELLED")]
                   saved == Invoice_save(cancelled, {"status", "notes"})
               IN /\ db_invoice' = IF saved = "ok" THEN cancelled
                                   ELSE db_invoice
                  /\ AuditLogService_log("INVOICE_CANCELLED", saved = "ok")
                  /\ req' = [req EXCEPT ![p] =
                               Idle([kind |-> "cancel", outcome |-> saved])]
    /\ UNCHANGED <<db_part_request, jobVars, itemVars, branchVars, db_lines, db_payments,
                   next_line_id>>

(***************************************************************************)
(* Append-only ledgers: JobStatusHistory, InventoryAdjustment, AuditLog     *)
(***************************************************************************)
MaxRows == 2         \* at most this many rows per ledger table

LedgerModels == {"JobStatusHistory", "InventoryAdjustment", "AuditLog"}

\* <Model>.save of the three ledger models
Ledger_save(model, pk) ==
    CASE model = "JobStatusHistory" -> JobStatusHistory_save(pk)
      [] model = "InventoryAdjustment" -> InventoryAdjustment_save(pk)
      [] model = "AuditLog" -> AuditLog_save(pk)

\* Field values a new ledger row may carry
LedgerPayloads(model) ==
    CASE model = "JobStatusHistory" ->
            {HistoryRow("RECEIVED", "DIAGNOSED", FALSE),
             HistoryRow("DIAGNOSED", "CANCELLED", FALSE),
             HistoryRow("DELIVERED", "IN_PROGRESS", TRUE)}
      [] model = "InventoryAdjustment" ->
            {AdjustmentRow("ADD", 1, 0, 1), AdjustmentRow("DEDUCT", 1, 1, 0),
             AdjustmentRow("MANUAL", 2, 0, 2)}
      [] model = "AuditLog" ->
            {[action |-> "INVOICE_CANCELLED"], [action |-> "INVOICE_FINALIZED"],
             [action |-> "PAYMENT_RECEIVED"]}

LedgerTable(model) ==
    CASE model = "JobStatusHistory" -> db_history
      [] model = "InventoryAdjustment" -> db_adjustments
      [] model = "AuditLog" -> db_audit

\* <Model>(...): the constructor fills pk from the field default
ConstructRow(p) ==
    /\ req[p].pc = "idle"
    /\ \E m \in LedgerModels :
         /\ Len(LedgerTable(m)) < MaxRows
         /\ \E row \in LedgerPayloads(m) :
              req' = [req EXCEPT ![p] =
                        [pc |-> "constructed", kind |-> "create_row",
                         obj |-> [pk |-> NewInstancePk, row |-> row],
                         args |-> [model |-> m],
                         last |-> NoResponse]]
    /\ UNCHANGED <<db_part_request, db_audit, jobVars, itemVars, branchVars, invoiceVars>>

\* <Model>.save() of the constructed instance (objects.create = both steps)
SaveRow(p) ==
    /\ req[p].pc = "constructed"
    /\ req[p].kind = "create_row"
    /\ LET m == req[p].args.model
           saved == Ledger_save(m, req[p].obj.pk)
           stored(model, table) ==
               IF saved = "ok" /\ m = model
               THEN Append(table, req[p].obj.row) ELSE table
       IN /\ db_history' = stored("JobStatusHistory", db_history)
          /\ db_adjustments' = stored("InventoryAdjustment", db_adjustments)
          /\ db_audit' = stored("AuditLog", db_audit)
          /\ req' = [req EXCEPT ![p] =
                       Idle([kind |-> "create_row", model |-> m,
                             outcome |-> saved])]
    /\ UNCHANGED <<db_part_request, db_job, notified, db_item, db_usages, branchVars,
                   invoiceVars>>

(***************************************************************************)
(* Initial states and specifications                                       *)
(***************************************************************************)
\* A job card as stored by JobCard.objects.create / the admin: any status
\* may be chosen there, and no history row is written
JobInit ==
    /\ db_job \in [status : JobStatus]
    /\ db_history = <<>>
    /\ notified = <<>>

JobInitDefault ==
    /\ db_job = [status |-> "RECEIVED"]
    /\ db_history = <<>>
    /\ notified = <<>>

\* An inventory item as stored by the admin, where quantity is editable;
\* created_quantity remembers the quantity it was created with
ItemInit ==
    /\ \E n \in 0..MaxQty, price \in SellingPrices :
         db_item = [quantity |-> n, created_quantity |-> n,
                    selling_price |-> price]
    /\ db_adjustments = <<>>
    /\ db_usages = <<>>

ItemInitDefault ==
    /\ db_item = [quantity |-> 0, created_quantity |-> 0,
                  selling_price |-> 2500]
    /\ db_adjustments = <<>>
    /\ db_usages = <<>>

\* Two branches of one organization, with the default prefixes
BranchInit ==
    /\ db_branch = [b \in Branches |->
                      NewBranch("o1", IF b = "b1" THEN "MUM" ELSE "PUN")]
    /\ branch_lock = [b \in Branches |-> NoLock]
    /\ issued = <<>>
    /\ db_docs = {}

\* Branch b1 and a second branch of the same or of another organization,
\* with any code that unique_together allows
BranchInitAny ==
    /\ db_branch \in [Branches -> {NewBranch(o, c) : o \in Organizations,
                                                     c \in BranchCodes}]
    /\ db_branch["b1"] = NewBranch("o1", "MUM")
    /\ BranchRowsUnique(db_branch)
    /\ branch_lock = [b \in Branches |-> NoLock]
    /\ issued = <<>>
    /\ db_docs = {}

InvoiceInit ==
    /\ \E d \in DiscountAmounts, i \in BOOLEAN : db_invoice = NewInvoice(d, i)
    /\ db_lines = {}
    /\ db_payments = <<>>
    /\ next_line_id = 1

InvoiceInitDefault ==
    /\ db_invoice = NewInvoice(0, FALSE)
    /\ db_lines = {}
    /\ db_payments = <<>>
    /\ next_line_id = 1

AuditInit == db_audit = <<>>

\* PartRequest as PartRequestViewSet.create stores it: status PENDING,
\* linked to an inventory item or naming a part that is not in stock
PartRequestInit ==
    \E n \in 1..MaxRequested, linked \in BOOLEAN :
        db_part_request = NewPartRequest(n, linked)

PartRequestInitDefault == db_part_request = NewPartRequest(1, FALSE)

ReqInit == /\ req = [p \in Procs |-> Idle(NoResponse)]
           /\ AuditInit
           /\ PartRequestInitDefault

\* No other request is in flight: requests are served one at a time
Alone(p) == \A q \in Procs \ {p} : req[q].pc = "idle"

InitJobs == JobInit /\ ItemInitDefault /\ BranchInit /\ InvoiceInitDefault
            /\ ReqInit

NextJobs ==
    \E p \in Procs :
        \/ BeginTransition(p)
        \/ DoTransition(p)
        \/ BeginUpdateStatus(p)
        \/ DoUpdateStatus(p)

SpecJobs == InitJobs /\ [][NextJobs]_vars

InitStock == JobInitDefault /\ ItemInit /\ BranchInit /\ InvoiceInitDefault
             /\ ReqInit

NextStock ==
    \E p \in Procs :
        \/ BeginStock(p)
        \/ DoAddStock(p)
        \/ CheckDeductStock(p)
        \/ DoDeductStock(p)
        \/ DoAdjustStock(p)

SpecStock == InitStock /\ [][NextStock]_vars

InitNumbering == JobInitDefault /\ ItemInitDefault /\ BranchInit
                 /\ InvoiceInitDefault /\ ReqInit

NextNumbering ==
    \E p \in Procs :
        \/ LockBranch(p, {"b1"})
        \/ IssueNumber(p)
        \/ FinishCreate(p)

SpecNumbering == InitNumbering /\ [][NextNumbering]_vars

InitBranches == JobInitDefault /\ ItemInitDefault /\ BranchInitAny
                /\ InvoiceInitDefault /\ ReqInit

\* Documents are created in both branches
NextBranches ==
    \E p \in Procs :
        \/ LockBranch(p, Branches)
        \/ IssueNumber(p)
        \/ FinishCreate(p)

SpecBranches == InitBranches /\ [][NextBranches]_vars

InitBilling == JobInitDefault /\ ItemInitDefault /\ BranchInit /\ InvoiceInit
               /\ ReqInit

\* The requests that race on one invoice: finalize, add_line_item and
\* record_payment
RacingActions == {"finalize", "add_line_item", "record_payment"}

\* Requests on the invoice may overlap
NextBilling ==
    \E p \in Procs :
        \/ BeginInvoice(p, RacingActions)
        \/ DoFinalize(p)
        \/ DoAddLineItem(p)
        \/ DoRecordPayment(p)

SpecBilling == InitBilling /\ [][NextBilling]_vars

\* Requests on the invoice are served one at a time
NextBillingSeq ==
    \E p \in Procs :
        \/ (Alone(p) /\ BeginInvoice(p, InvoiceActions))
        \/ DoFinalize(p)
        \/ DoAddLineItem(p)
        \/ DoRemoveLineItem(p)
        \/ DoRecordPayment(p)
        \/ DoCancel(p)

SpecBillingSeq == InitBilling /\ [][NextBillingSeq]_vars

\* A caller evaluates calculate_gst(base, rate, is_interstate)
CallGst(p) ==
    /\ req[p].pc = "idle"
    /\ \E b \in GstBases, r \in GstRates, i \in BOOLEAN :
         req' = [req EXCEPT ![p] =
                   Idle([kind |-> "calculate_gst",
                         args |-> [base |-> b, rate |-> r,
                                   is_interstate |-> i],
                         outcome |-> calculate_gst(b, r, i)])]
    /\ UNCHANGED <<db_part_request, db_audit, jobVars, itemVars, branchVars, invoiceVars>>

InitParts == JobInitDefault /\ ItemInit /\ BranchInit /\ InvoiceInitDefault
             /\ req = [p \in Procs |-> Idle(NoResponse)]
             /\ AuditInit /\ PartRequestInit

NextParts ==
    \E p \in Procs :
        \/ BeginPartRequest(p)
        \/ DoApprove(p)
        \/ DoReject(p)
        \/ DoPartialUpdate(p)

SpecParts == InitParts /\ [][NextParts]_vars

InitGst == JobInitDefault /\ ItemInitDefault /\ BranchInit
           /\ InvoiceInitDefault /\ ReqInit

NextGst == \E p \in Procs : CallGst(p)

SpecGst == InitGst /\ [][NextGst]_vars

InitLedger == JobInitDefault /\ ItemInitDefault /\ BranchInit
              /\ InvoiceInitDefault /\ ReqInit

NextLedger ==
    \E p \in Procs :
        \/ ConstructRow(p)
        \/ SaveRow(p)

SpecLedger == InitLedger /\ [][NextLedger]_vars

(***************************************************************************)
(* Properties                                                              *)
(***************************************************************************)
\* A request p completes in this step
Completes(p) == req[p].pc # "idle" /\ req'[p].pc = "idle"

RECURSIVE SumDeltas(_)
SumDeltas(rows) ==
    IF rows = <<>> THEN 0
    ELSE (Head(rows).new_quantity - Head(rows).old_quantity)
         + SumDeltas(Tail(rows))

\* C1: a non-override transition_status(T) on a job in status S fails, leaves
\* the status unchanged and adds no history row when T is not an allowed
\* target of S; when T is allowed it succeeds, stores status T and appends
\* exactly the one history row {from=S, to=T}.
C1_TransitionLegality ==
    [][\A p \in Procs :
        (req[p].kind = "transition" /\ ~req[p].args.is_override
         /\ Completes(p))
        => LET S == req[p].obj.status
               T == req[p].args.new_status
           IN IF ~can_transition_to(S, T)
              THEN /\ req'[p].last.outcome \in
                        {"JobReadOnlyError", "InvalidStatusTransition"}
                   /\ db_job' = db_job
                   /\ db_history' = db_history
              ELSE /\ req'[p].last.outcome = "ok"
                   /\ db_job'.status = T
                   /\ db_history' =
                        Append(db_history, HistoryRow(S, T, FALSE))]_vars

\* C2: on a job whose status is DELIVERED, CANCELLED or REJECTED every
\* non-override attempt fails and leaves the status unchanged, and an
\* override attempt by an Owner or Manager succeeds and stores the requested
\* status.
C2_TerminalImmutability ==
    [][\A p \in Procs :
        (req[p].kind \in {"transition", "update_status"}
         /\ is_terminal_status(req[p].obj.status) /\ Completes(p))
        => IF ~req[p].args.is_override
           THEN /\ req'[p].last.outcome # "ok"
                /\ db_job' = db_job
           ELSE (req[p].kind = "update_status"
                    => req[p].args.role \in {"OWNER", "MANAGER"})
                => /\ req'[p].last.outcome = "ok"
                   /\ db_job'.status = req[p].args.new_status]_vars

\* C3: the stock quantity is never negative, and a deduct_stock asking for
\* more than the available stock fails with InsufficientInventory and leaves
\* the quantity unchanged.
C3_StockNonNegative ==
    [][/\ db_item.quantity >= 0
       /\ db_item'.quantity >= 0
       /\ \A p \in Procs :
            (req[p].kind = "deduct_stock" /\ Completes(p)
             /\ req[p].args.amount > db_item.quantity)
            => /\ req'[p].last.outcome = "InsufficientInventory"
               /\ db_item'.quantity = db_item.quantity]_vars

\* C3 witness: a deduct request larger than the stock of 1 was refused
C3_Witness ==
    /\ db_item.quantity = 1
    /\ \E p \in Procs :
         req[p].last = [kind |-> "deduct_stock",
                        outcome |-> "InsufficientInventory"]

\* C4: for an item created with quantity 0, the signed deltas
\* (new_quantity - old_quantity) of its InventoryAdjustment rows add up to
\* its stored quantity, after any stock calls, successful or failed.
C4_AdjustmentReconciliation ==
    db_item.created_quantity = 0
    => SumDeltas(db_adjustments) = db_item.quantity

\* C4 witness: a stock call has run on an item created with quantity 0
C4_Witness ==
    /\ db_item.created_quantity = 0
    /\ \E p \in Procs :
         /\ req[p].last.kind \in {"add_stock", "adjust_stock"}
         /\ req[p].last.outcome \notin {"none", "ValidationError"}

\* C5: the numbers returned by get_next_*_number for one document kind of
\* the branch are pairwise distinct and strictly increasing in issue order.
C5_SequenceUniqueness ==
    \A i, j \in DOMAIN issued :
        (i < j /\ issued[i].kind = issued[j].kind
         /\ issued[i].branch = issued[j].branch)
        => issued[i].number.seq < issued[j].number.seq

LineKinds == {"add_line_item", "remove_line_item"}

\* The stored totals of the invoice are the sums over its stored line items
TotalsMatch(inv, lines) ==
    /\ inv.subtotal = SumField(lines, "amount")
    /\ inv.cgst_total = SumField(lines, "cgst_amount")
    /\ inv.sgst_total = SumField(lines, "sgst_amount")
    /\ inv.igst_total = SumField(lines, "igst_amount")
    /\ inv.total_amount = inv.subtotal + inv.cgst_total + inv.sgst_total
                          + inv.igst_total - inv.discount_amount

PaymentStep(p) ==
    (req[p].kind = "record_payment" /\ Completes(p))
    => LET amount == req[p].args.a
           due == balance_due(db_invoice)
       IN /\ amount > due
             => /\ req'[p].last.outcome # "ok"
                /\ db_invoice'.paid_amount = db_invoice.paid_amount
                /\ db_payments' = db_payments
          /\ (0 < amount /\ amount <= due /\ db_invoice.is_finalized
              /\ db_invoice.status # "CANCELLED")
             => /\ req'[p].last.outcome = "ok"
                /\ balance_due(db_invoice') = due - amount
                /\ (balance_due(db_invoice') = 0
                      => db_invoice'.status = "PAID")
                /\ db_payments' = Append(db_payments, amount)

C8_DeductSerialized ==
    /\ db_item.quantity >= 0
    /\ \A p, q \in Procs :
         (p # q /\ req[p].kind = "deduct_stock" /\ req[p].pc = "checked"
          /\ req[q].kind = "deduct_stock" /\ req[q].pc = "checked")
         => req[p].args.amount + req[q].args.amount <= db_item.quantity

\* C9: a record_payment that succeeds was validated against the balance due
\* stored at that moment, so the Payment rows of the invoice never add up to
\* more than a non-negative total_amount.
C9_PaymentSerialized ==
    [][/\ \A p \in Procs :
            (req[p].kind = "record_payment" /\ Completes(p)
             /\ req'[p].last.outcome = "ok")
            => req[p].args.a <= balance_due(db_invoice)
       /\ (db_invoice'.is_finalized /\ db_invoice'.total_amount >= 0)
          => /\ SumSeq(db_payments') <= db_invoice'.total_amount
             /\ db_invoice'.paid_amount <= db_invoice'.total_amount]_vars

\* C10: no line item is added once the finalization is stored, and the
\* stored totals of a finalized invoice are the sums over its line items.
C10_FinalizeSerialized ==
    [][/\ db_invoice.is_finalized => db_lines' = db_lines
       /\ db_invoice'.is_finalized => TotalsMatch(db_invoice', db_lines')]_vars

\* C11: once the stored invoice is finalized, no step changes a stored field
\* outside the allow-list {paid_amount, status}, and a request that tries to
\* (cancel appends to notes) is refused.
C11_FinalizedFieldsFrozen ==
    [][db_invoice.is_finalized
       => /\ \A f \in DOMAIN db_invoice \ {"paid_amount", "status"} :
               db_invoice'[f] = db_invoice[f]
          /\ \A p \in Procs :
               (req[p].kind = "cancel" /\ Completes(p))
               => req'[p].last.outcome # "ok"]_vars

\* C12: for every base amount and rate the intrastate result has igst 0 and
\* equal cgst and sgst parts whose sum is within one paisa of the igst of the
\* interstate result, which has cgst = sgst = 0; each result's total_tax is
\* the sum of its components and total_amount is base + total_tax; for
\* 1000.00 at 18% the parts are 90.00 + 90.00 and 180.00, total 1180.00.
C12_GstSplit ==
    \A p \in Procs :
        req[p].last.kind = "calculate_gst"
        => LET a == req[p].last.args
               out == req[p].last.outcome
               intra == calculate_gst(a.base, a.rate, FALSE)
               inter == calculate_gst(a.base, a.rate, TRUE)
           IN /\ out = IF a.is_interstate THEN inter ELSE intra
              /\ intra.igst_amount = 0
              /\ inter.cgst_amount = 0 /\ inter.sgst_amount = 0
              /\ intra.cgst_amount = intra.sgst_amount
              /\ Abs(intra.cgst_amount + intra.sgst_amount
                     - inter.igst_amount) <= 1
              /\ out.total_tax = out.cgst_amount + out.sgst_amount
                                 + out.igst_amount
              /\ out.total_amount = a.base + out.total_tax
              /\ (a.base = 100000 /\ a.rate = 1800)
                 => /\ intra.cgst_amount = 9000 /\ intra.sgst_amount = 9000
                    /\ inter.igst_amount = 18000
                    /\ out.total_amount = 118000

\* C12 witness: 1000.00 at 18% was computed intrastate, and an amount whose
\* two halves round up was computed too
C12_Witness ==
    \E p, q \in Procs :
        /\ req[p].last.kind = "calculate_gst"
        /\ req[p].last.args = [base |-> 100000, rate |-> 1800,
                               is_interstate |-> FALSE]
        /\ req[p].last.outcome.total_amount = 118000
        /\ req[q].last.kind = "calculate_gst"
        /\ req[q].last.args = [base |-> 50, rate |-> 1800,
                               is_interstate |-> FALSE]
        /\ req[q].last.outcome.total_tax = 10

\* C13: after every successful add_line_item or remove_line_item on an
\* invoice that is not finalized, the stored subtotal and tax totals are the
\* sums over the stored line items, total_amount is subtotal + tax -
\* discount, and recalculating over the same line items changes nothing.
C13_TotalsFollowLines ==
    [][\A p \in Procs :
        (req[p].kind \in LineKinds /\ Completes(p)
         /\ req'[p].last.outcome = "ok" /\ ~db_invoice'.is_finalized)
        => /\ TotalsMatch(db_invoice', db_lines')
           /\ calculate_totals(db_invoice', db_lines') = db_invoice']_vars

\* C14: a transition the table allows stores the new status and its history
\* row and then hands the event {old status, new status} to the notification
\* service, after the atomic block was left; a transition that stores
\* nothing hands over no event.
C14_NotifyAfterCommit ==
    [][\A p \in Procs :
        (req[p].kind = "transition" /\ Completes(p))
        => LET S == req[p].obj.status
               T == req[p].args.new_status
           IN /\ (~req[p].args.is_override /\ can_transition_to(S, T))
                 => /\ db_job'.status = T
                    /\ Len(notified') = Len(notified) + 1
                    /\ notified'[Len(notified')].old_status = S
                    /\ notified'[Len(notified')].new_status = T
                    /\ ~notified'[Len(notified')].inside_atomic
              /\ (db_history' = db_history) => (notified' = notified)]_vars

\* C15: a new JobStatusHistory, InventoryAdjustment or AuditLog row can be
\* created (the create stores exactly that row at the end of its table), and
\* no step changes or removes a row that is already stored.
C15_AppendOnly ==
    [][/\ \A p \in Procs :
            (req[p].kind = "create_row" /\ Completes(p))
            => /\ req'[p].last.outcome = "ok"
               /\ LedgerTable(req[p].args.model)' =
                    Append(LedgerTable(req[p].args.model), req[p].obj.row)
       /\ \A m \in LedgerModels :
            /\ Len(LedgerTable(m)') >= Len(LedgerTable(m))
            /\ SubSeq(LedgerTable(m)', 1, Len(LedgerTable(m)))
                 = LedgerTable(m)]_vars

\* The quantity a valid stock call of kind k with argument a leaves behind
StockTarget(k, quantity, a) ==
    CASE k = "add_stock" -> quantity + a
      [] k = "deduct_stock" -> quantity - a
      [] k = "adjust_stock" -> a

\* The arguments C16 promises success for
StockCallValid(k, quantity, a) ==
    CASE k = "add_stock" -> a > 0
      [] k = "deduct_stock" -> a > 0 /\ a <= quantity
      [] k = "adjust_stock" -> a >= 0

\* C16: every add_stock(qty > 0), deduct_stock(0 < qty <= stock) and
\* adjust_stock(new >= 0) succeeds, stores the new quantity and appends
\* exactly one InventoryAdjustment row holding the quantity before and after;
\* a failed call appends no row.
C16_OneAdjustmentPerCall ==
    [][\A p \in Procs :
        (req[p].kind \in {"add_stock", "deduct_stock", "adjust_stock"}
         /\ Completes(p))
        => LET k == req[p].kind
               a == req[p].args.amount
               old == db_item.quantity
               new == StockTarget(k, old, a)
           IN /\ StockCallValid(k, old, a)
                 => /\ req'[p].last.outcome = "ok"
                    /\ db_item'.quantity = new
                    /\ Len(db_adjustments') = Len(db_adjustments) + 1
                    /\ db_adjustments'[Len(db_adjustments')].old_quantity
                         = old
                    /\ db_adjustments'[Len(db_adjustments')].new_quantity
                         = new
              /\ req'[p].last.outcome # "ok"
                 => db_adjustments' = db_adjustments]_vars

C20_NumbersBurned ==
    [][/\ \A b \in Branches, doc \in DocKinds :
            db_branch'[b][CounterField(doc)] >= db_branch[b][CounterField(doc)]
       /\ \A p \in Procs :
            (req[p].pc = "locked" /\ req'[p].pc # "locked")
            => /\ Len(issued') = Len(issued) + 1
               /\ \A i \in DOMAIN issued :
                    issued[i] # issued'[Len(issued')]]_vars

C22_FailureListsAllowed ==
    [][\A p \in Procs :
        (/\ req[p].kind \in {"transition", "update_status"}
         /\ Completes(p)
         /\ ~req[p].args.is_override
         /\ ~is_terminal_status(req[p].obj.status)
         /\ ~can_transition_to(req[p].obj.status, req[p].args.new_status))
        => /\ req'[p].last.outcome \in {"InvalidStatusTransition",
                                        "ValidationError"}
           /\ "allowed" \in DOMAIN req'[p].last.detail
           /\ req'[p].last.detail.allowed
                = ALLOWED_STATUS_TRANSITIONS[req[p].obj.status]]_vars

\* C23: every finalize, record_payment and cancel request that succeeds
\* appends exactly one AuditLog row for its action.
C23_AuditPerMutation ==
    [][\A p \in Procs :
        (/\ req[p].kind \in {"finalize", "record_payment", "cancel"}
         /\ Completes(p)
         /\ req'[p].last.outcome = "ok")
        => /\ Len(db_audit') = Len(db_audit) + 1
           /\ db_audit'[Len(db_audit')].action =
                (CASE req[p].kind = "finalize" -> "INVOICE_FINALIZED"
                   [] req[p].kind = "record_payment" -> "PAYMENT_RECEIVED"
                   [] req[p].kind = "cancel" -> "INVOICE_CANCELLED")]_vars

\* C24: the line item an add_line_item request stores has its discount
\* rounded half-up to 2 decimals (0.525 becomes 0.53) and each tax component
\* rounded half-up to 2 decimals on the discounted amount.
C24_RoundingHalfUp ==
    [][\A p \in Procs :
        (/\ req[p].kind = "add_line_item"
         /\ Completes(p)
         /\ req'[p].last.outcome = "ok")
        => \E l \in db_lines' \ db_lines :
             LET in == req[p].args.a
                 gross == in.quantity * in.unit_price
                 amount == gross
                           - RoundHalfUp(gross * in.discount_percent, 10000)
                 interstate == req[p].obj.inv.is_interstate
             IN /\ l.amount = amount
                /\ l.igst_amount =
                     (IF interstate
                      THEN RoundHalfUp(amount * in.gst_rate, 10000) ELSE 0)
                /\ l.cgst_amount =
                     (IF interstate THEN 0
                      ELSE RoundHalfUp(amount * in.gst_rate, 20000))
                /\ l.sgst_amount = l.cgst_amount]_vars

\* C25: once the stored invoice has status CANCELLED, no request
\* (add_line_item, remove_line_item, finalize, record_payment, cancel)
\* changes its status again.
C25_CancelledAbsorbing ==
    [][db_invoice.status = "CANCELLED"
       => db_invoice'.status = "CANCELLED"]_vars

\* C26: a stored invoice that is not finalized has status DRAFT or
\* CANCELLED, also when it was created without line items (total_amount 0).
C26_DraftStatus ==
    ~db_invoice.is_finalized => db_invoice.status \in {"DRAFT", "CANCELLED"}

\* C27: the stored paid_amount of the invoice equals the sum of the amounts
\* of its stored Payment rows, also when record_payment requests overlap.
C27_PaidEqualsPayments ==
    db_invoice.paid_amount = SumSeq(db_payments)

\* The rows h, oldest first, explain how a job reached `status`
HistoryChain(h, status) ==
    /\ \A i \in 2..Len(h) : h[i].from_status = h[i - 1].to_status
    /\ \A i \in DOMAIN h :
         ~h[i].is_override => can_transition_to(h[i].from_status,
                                                h[i].to_status)
    /\ h # <<>> => h[Len(h)].to_status = status

C30_BranchesIndependent ==
    [][\A p \in Procs :
        (/\ req[p].kind = "create"
         /\ Completes(p)
         /\ req'[p].last.outcome = "IntegrityError")
        => LET b == req[p].args.branch
               n == IF req[p].pc = "locked" THEN req[p].obj.counter + 1
                    ELSE req[p].obj.counter
               number == FormatNumber(req[p].args.doc, db_branch[b].code, n)
           IN ~\E d \in db_docs :
                 /\ d.kind = req[p].args.doc
                 /\ d.branch # b
                 /\ d.number = number]_vars

====
